---- MODULE Spec2Model ----
(***************************************************************************)
(* Startup/shutdown lifecycle of the FWTX Wiki API (src/wiki.py).          *)
(*                                                                         *)
(* Two coroutines run on one cooperative event loop:                       *)
(*   - lifespan (lines 32-79), whose position is pc;                       *)
(*   - the background task created at line 56, which runs                  *)
(*     initialize_graphiti (lines 82-94) and whose position is task.       *)
(* The lifespan has no await between its entry and its yield, and none     *)
(* between its resumption and its end, so the task only advances while     *)
(* the lifespan is suspended at the yield or has ended.                    *)
(*                                                                         *)
(* Strings read from the environment are sequences of one-character        *)
(* strings, so that str.lower() is computed character by character.        *)
(***************************************************************************)
EXTENDS Naturals, Sequences, FiniteSets

VARIABLES
    env,          \* the process environment: variable name -> [set, val]
    pc,           \* position of the lifespan coroutine
    task,         \* position of the background task of line 56
    initArgs,     \* arguments bound to initialize_graphiti at line 56
    initCalls,    \* number of calls of graphiti_init (line 85)
    startCalls,   \* number of calls of start_sync_scheduler (line 65)
    stopCalls,    \* number of calls of stop_sync_scheduler (line 77)
    launchResult, \* how the try block of lines 49-57 ended
    initResult,   \* how the awaited graphiti_init ended
    startResult,  \* how start_sync_scheduler ended
    stopResult,   \* how stop_sync_scheduler ended
    yieldRaised,  \* an exception was thrown into the lifespan at its yield
    triggers,     \* shutdown triggers delivered so far
    log           \* records written to the logger, in order

vars == <<env, pc, task, initArgs, initCalls, startCalls, stopCalls,
          launchResult, initResult, startResult, stopResult, yieldRaised,
          triggers, log>>

\* Number of shutdown triggers the environment may deliver.
MaxTriggers == 2

----------------------------------------------------------------------------
\* Strings and the environment

s_true     == <<"t", "r", "u", "e">>
s_True     == <<"T", "r", "u", "e">>
s_TRUE     == <<"T", "R", "U", "E">>
s_false    == <<"f", "a", "l", "s", "e">>
s_False    == <<"F", "a", "l", "s", "e">>
s_one      == <<"1">>
s_yes      == <<"y", "e", "s">>
s_empty    == <<>>
s_initial  == <<"i", "n", "i", "t", "i", "a", "l">>
s_live     == <<"l", "i", "v", "e">>
s_LIVE     == <<"L", "I", "V", "E">>
s_weekly   == <<"w", "e", "e", "k", "l", "y">>

Unset  == [set |-> FALSE, val |-> <<>>]
Set(s) == [set |-> TRUE, val |-> s]

EnvNames == {"LOAD_INITIAL_DATA", "SYNC_MODE", "ENABLE_SYNC_SCHEDULER"}

BoolTexts == {s_true, s_True, s_TRUE, s_false, s_False, s_one, s_yes, s_empty}
ModeTexts == {s_initial, s_live, s_LIVE, s_weekly}

Environments ==
    { e \in [EnvNames -> {Unset} \cup {Set(s) : s \in BoolTexts \cup ModeTexts}] :
        /\ e["LOAD_INITIAL_DATA"] \in {Unset} \cup {Set(s) : s \in BoolTexts}
        /\ e["ENABLE_SYNC_SCHEDULER"] \in {Unset} \cup {Set(s) : s \in BoolTexts}
        /\ e["SYNC_MODE"] \in {Unset} \cup {Set(s) : s \in ModeTexts} }

\* os.getenv(name, default)
getenv(name, default) == IF env[name].set THEN env[name].val ELSE default

\* str.lower(), one character
LowerChar(c) ==
    CASE c = "T" -> "t"
      [] c = "R" -> "r"
      [] c = "U" -> "u"
      [] c = "E" -> "e"
      [] c = "F" -> "f"
      [] c = "L" -> "l"
      [] c = "I" -> "i"
      [] c = "V" -> "v"
      [] OTHER   -> c

\* str.lower()
lower(s) == [i \in DOMAIN s |-> LowerChar(s[i])]

\* load_initial_data with the default "true" in place of "false".
load_initial_data_DefaultTrue ==
    lower(getenv("LOAD_INITIAL_DATA", s_true)) = s_true

\* load_initial_data as a truthiness test: every value but "false" and the
\* empty string counts as true.
load_initial_data_Truthy ==
    lower(getenv("LOAD_INITIAL_DATA", s_false)) \notin {s_false, s_empty}

\* line 52: os.getenv("LOAD_INITIAL_DATA", "false").lower() == "true"
load_initial_data == lower(getenv("LOAD_INITIAL_DATA", s_false)) = s_true

\* sync_mode with the default "live" in place of "initial".
sync_mode_DefaultLive == getenv("SYNC_MODE", s_live)

\* line 53: os.getenv("SYNC_MODE", "initial")
sync_mode == getenv("SYNC_MODE", s_initial)

\* scheduler_enabled without .lower(): the comparison is case-sensitive.
scheduler_enabled_CaseSensitive ==
    getenv("ENABLE_SYNC_SCHEDULER", s_false) = s_true

\* line 62: os.getenv("ENABLE_SYNC_SCHEDULER", "false").lower() == "true"
scheduler_enabled == lower(getenv("ENABLE_SYNC_SCHEDULER", s_false)) = s_true

----------------------------------------------------------------------------
\* Positions

LifespanPcs == {"not_started", "init_launch", "sched_check", "in_start",
                "serving", "shutting_down", "in_stop", "stopped", "aborted"}

TaskPcs == {"none", "created", "awaiting", "done", "escaped"}

NoArgs == [load |-> FALSE, mode |-> <<>>, bound |-> FALSE]

\* LifespanSuspended under preemptive scheduling: other tasks run at any
\* point of the lifespan.
LifespanSuspended_Preemptive == pc \in LifespanPcs

\* The lifespan is not running: it is suspended at the yield of line 70 or it
\* has ended. Only then does the event loop run other tasks.
LifespanSuspended == pc \in {"serving", "stopped", "aborted"}

\* create_task (line 56) queues the task's first step on the loop before the
\* lifespan suspends; whatever resumes the lifespan is queued after it.
TaskFirstStepRan == task # "created"

Logged(m) == Cardinality({i \in DOMAIN log : log[i] = m})

----------------------------------------------------------------------------
Init ==
    /\ env \in Environments
    /\ pc = "not_started"
    /\ task = "none"
    /\ initArgs = NoArgs
    /\ initCalls = 0
    /\ startCalls = 0
    /\ stopCalls = 0
    /\ launchResult = "none"
    /\ initResult = "none"
    /\ startResult = "none"
    /\ stopResult = "none"
    /\ yieldRaised = FALSE
    /\ triggers = 0
    /\ log = <<>>

----------------------------------------------------------------------------
\* lifespan, startup half (lines 33-70)

\* lines 33-46: entry; the banner and the settings report are logged.
Enter ==
    /\ pc = "not_started"
    /\ pc' = "init_launch"
    /\ log' = Append(log, "starting_up")
    /\ UNCHANGED <<env, task, initArgs, initCalls, startCalls, stopCalls,
                   launchResult, initResult, startResult, stopResult,
                   yieldRaised, triggers>>

\* LaunchInit with "await initialize_graphiti(...)" in place of create_task:
\* the call is made on the startup path, which goes on once it has ended.
LaunchInit_Awaited ==
    /\ pc = "init_launch"
    /\ \/ /\ task = "none"
          /\ task' = "awaiting"
          /\ initCalls' = initCalls + 1
          /\ initArgs' = [load  |-> load_initial_data,
                          mode  |-> sync_mode,
                          bound |-> TRUE]
          /\ log' = Append(log, "init_launching")
          /\ UNCHANGED <<pc, launchResult, initResult>>
       \/ /\ task = "awaiting"
          /\ \E r \in {"ok", "Exception"} :
               /\ initResult' = r
               /\ log' = Append(log, IF r = "ok" THEN "init_completed"
                                                 ELSE "init_failed")
          /\ task' = "done"
          /\ launchResult' = "ok"
          /\ pc' = "sched_check"
          /\ UNCHANGED <<initCalls, initArgs>>
    /\ UNCHANGED <<env, startCalls, stopCalls, startResult, stopResult,
                   yieldRaised, triggers>>

\* lines 49-59: read the two flags, create the background task; an Exception
\* raised in the try block is logged and startup goes on.
LaunchInit ==
    /\ pc = "init_launch"
    /\ \E r \in {"ok", "Exception"} :
         /\ launchResult' = r
         /\ IF r = "ok"
            THEN /\ task' = "created"
                 /\ initArgs' = [load  |-> load_initial_data,
                                 mode  |-> sync_mode,
                                 bound |-> TRUE]
                 /\ log' = log \o <<"init_launching", "init_launched">>
            ELSE /\ task' = task
                 /\ initArgs' = initArgs
                 /\ log' = log \o <<"init_launching", "launch_failed">>
    /\ pc' = "sched_check"
    /\ UNCHANGED <<env, initCalls, startCalls, stopCalls, initResult,
                   startResult, stopResult, yieldRaised, triggers>>

\* StartCall that hands start_sync_scheduler to the event loop instead of
\* calling it: the lifespan goes on to its yield without the call's result.
StartCall_Detached ==
    /\ pc = "sched_check"
    /\ scheduler_enabled
    /\ pc' = "serving"
    /\ startCalls' = startCalls + 1
    /\ log' = Append(log, "sched_starting")
    /\ UNCHANGED <<env, task, initArgs, initCalls, stopCalls, launchResult,
                   initResult, startResult, stopResult, yieldRaised, triggers>>

\* lines 62-65: the scheduler is enabled; start_sync_scheduler is called.
StartCall ==
    /\ pc = "sched_check"
    /\ scheduler_enabled
    /\ pc' = "in_start"
    /\ startCalls' = startCalls + 1
    /\ log' = Append(log, "sched_starting")
    /\ UNCHANGED <<env, task, initArgs, initCalls, stopCalls, launchResult,
                   initResult, startResult, stopResult, yieldRaised, triggers>>

\* lines 62, 70: the scheduler is not enabled; the lifespan yields.
SkipStart ==
    /\ pc = "sched_check"
    /\ ~scheduler_enabled
    /\ pc' = "serving"
    /\ UNCHANGED <<env, task, initArgs, initCalls, startCalls, stopCalls,
                   launchResult, initResult, startResult, stopResult,
                   yieldRaised, triggers, log>>

\* StartReturn without the try/except of lines 63-68: an Exception raised by
\* start_sync_scheduler leaves the lifespan before its yield.
StartReturn_Propagates ==
    /\ pc = "in_start"
    /\ \E r \in {"ok", "Exception"} :
         /\ startResult' = r
         /\ IF r = "ok"
            THEN /\ log' = Append(log, "sched_started")
                 /\ pc' = "serving"
            ELSE /\ log' = log
                 /\ pc' = "aborted"
    /\ UNCHANGED <<env, task, initArgs, initCalls, startCalls, stopCalls,
                   launchResult, initResult, stopResult, yieldRaised, triggers>>

\* lines 65-70: start_sync_scheduler returns or raises an Exception, which is
\* logged; the lifespan yields.
StartReturn ==
    /\ pc = "in_start"
    /\ \E r \in {"ok", "Exception"} :
         /\ startResult' = r
         /\ log' = Append(log, IF r = "ok" THEN "sched_started" ELSE "start_failed")
    /\ pc' = "serving"
    /\ UNCHANGED <<env, task, initArgs, initCalls, startCalls, stopCalls,
                   launchResult, initResult, stopResult, yieldRaised, triggers>>

----------------------------------------------------------------------------
\* lifespan, shutdown half (lines 70-79)

\* ShutdownTrigger that runs the shutdown sequence on every trigger, also
\* when the lifespan has ended.
ShutdownTrigger_Reentrant ==
    /\ triggers < MaxTriggers
    /\ LifespanSuspended
    /\ TaskFirstStepRan
    /\ triggers' = triggers + 1
    /\ IF pc \in {"serving", "stopped"}
       THEN /\ pc' = "shutting_down"
            /\ log' = Append(log, "shutting_down")
       ELSE UNCHANGED <<pc, log>>
    /\ UNCHANGED <<env, task, initArgs, initCalls, startCalls, stopCalls,
                   launchResult, initResult, startResult, stopResult,
                   yieldRaised>>

\* lines 70-73: a shutdown trigger. The first one resumes the generator after
\* its yield; a generator resumes once, so a later trigger finds the lifespan
\* ended and changes nothing.
ShutdownTrigger ==
    /\ triggers < MaxTriggers
    /\ LifespanSuspended
    /\ TaskFirstStepRan
    /\ triggers' = triggers + 1
    /\ IF pc = "serving"
       THEN /\ pc' = "shutting_down"
            /\ log' = Append(log, "shutting_down")
       ELSE UNCHANGED <<pc, log>>
    /\ UNCHANGED <<env, task, initArgs, initCalls, startCalls, stopCalls,
                   launchResult, initResult, startResult, stopResult,
                   yieldRaised>>

\* YieldRaise with the shutdown code in a finally block: an exception thrown
\* in at the yield runs the shutdown sequence before it leaves the lifespan.
YieldRaise_Finally ==
    /\ pc = "serving"
    /\ TaskFirstStepRan
    /\ pc' = "shutting_down"
    /\ yieldRaised' = TRUE
    /\ log' = Append(log, "shutting_down")
    /\ UNCHANGED <<env, task, initArgs, initCalls, startCalls, stopCalls,
                   launchResult, initResult, startResult, stopResult,
                   triggers>>

\* line 70: an exception is thrown into the generator at its yield. The code
\* after the yield is in no finally block: the exception leaves the lifespan.
YieldRaise ==
    /\ pc = "serving"
    /\ TaskFirstStepRan
    /\ pc' = "aborted"
    /\ yieldRaised' = TRUE
    /\ UNCHANGED <<env, task, initArgs, initCalls, startCalls, stopCalls,
                   launchResult, initResult, startResult, stopResult,
                   triggers, log>>

\* StopCall guarded by "the scheduler was started": stop_sync_scheduler is
\* skipped when start_sync_scheduler was not called or raised.
StopCall_OnlyIfStarted ==
    /\ pc = "shutting_down"
    /\ IF startResult = "ok"
       THEN /\ pc' = "in_stop"
            /\ stopCalls' = stopCalls + 1
       ELSE /\ pc' = "stopped"
            /\ stopCalls' = stopCalls
    /\ UNCHANGED <<env, task, initArgs, initCalls, startCalls, launchResult,
                   initResult, startResult, stopResult, yieldRaised, triggers,
                   log>>

\* StopCall preceded by a cancellation of the background task: a pending
\* graphiti_init ends with CancelledError.
StopCall_CancelsInit ==
    /\ pc = "shutting_down"
    /\ pc' = "in_stop"
    /\ stopCalls' = stopCalls + 1
    /\ IF task = "awaiting"
       THEN /\ task' = "escaped"
            /\ initResult' = "BaseException"
       ELSE UNCHANGED <<task, initResult>>
    /\ UNCHANGED <<env, initArgs, initCalls, startCalls, launchResult,
                   startResult, stopResult, yieldRaised, triggers, log>>

\* lines 76-77: stop_sync_scheduler is called, whatever happened at startup.
StopCall ==
    /\ pc = "shutting_down"
    /\ pc' = "in_stop"
    /\ stopCalls' = stopCalls + 1
    /\ UNCHANGED <<env, task, initArgs, initCalls, startCalls, launchResult,
                   initResult, startResult, stopResult, yieldRaised, triggers,
                   log>>

\* StopReturn without the try/except of lines 76-79: an Exception raised by
\* stop_sync_scheduler leaves the lifespan unlogged.
StopReturn_Propagates ==
    /\ pc = "in_stop"
    /\ \E r \in {"ok", "Exception"} :
         /\ stopResult' = r
         /\ pc' = IF r = "ok" THEN "stopped" ELSE "aborted"
    /\ log' = log
    /\ UNCHANGED <<env, task, initArgs, initCalls, startCalls, stopCalls,
                   launchResult, initResult, startResult, yieldRaised, triggers>>

\* lines 77-79: stop_sync_scheduler returns or raises an Exception, which is
\* logged; the lifespan ends.
StopReturn ==
    /\ pc = "in_stop"
    /\ \E r \in {"ok", "Exception"} :
         /\ stopResult' = r
         /\ log' = IF r = "ok" THEN log ELSE Append(log, "stop_failed")
    /\ pc' = "stopped"
    /\ UNCHANGED <<env, task, initArgs, initCalls, startCalls, stopCalls,
                   launchResult, initResult, startResult, yieldRaised, triggers>>

----------------------------------------------------------------------------
\* initialize_graphiti, the background task (lines 82-94)

\* lines 82-85: the task's first step calls graphiti_init with the arguments
\* bound at line 56 and suspends in the await.
TaskStart ==
    /\ task = "created"
    /\ LifespanSuspended
    /\ task' = "awaiting"
    /\ initCalls' = initCalls + 1
    /\ UNCHANGED <<env, pc, initArgs, startCalls, stopCalls, launchResult,
                   initResult, startResult, stopResult, yieldRaised, triggers,
                   log>>

\* TaskInitReturn without the try/except of lines 84-92: an Exception raised
\* by graphiti_init leaves the coroutine unlogged.
TaskInitReturn_NoCatch ==
    /\ task = "awaiting"
    /\ LifespanSuspended
    /\ \E r \in {"ok", "Exception", "BaseException"} :
         /\ initResult' = r
         /\ IF r = "ok"
            THEN /\ task' = "done"
                 /\ log' = IF initArgs.load
                           THEN log \o <<"init_completed", "data_loaded">>
                           ELSE Append(log, "init_completed")
            ELSE /\ task' = "escaped"
                 /\ log' = log
    /\ UNCHANGED <<env, pc, initArgs, initCalls, startCalls, stopCalls,
                   launchResult, startResult, stopResult, yieldRaised, triggers>>

\* TaskInitReturn with "except BaseException" in place of "except Exception":
\* cancellation and exit requests are caught and logged as well.
TaskInitReturn_CatchAll ==
    /\ task = "awaiting"
    /\ LifespanSuspended
    /\ \E r \in {"ok", "Exception", "BaseException"} :
         /\ initResult' = r
         /\ task' = "done"
         /\ log' = IF r = "ok"
                   THEN IF initArgs.load
                        THEN log \o <<"init_completed", "data_loaded">>
                        ELSE Append(log, "init_completed")
                   ELSE Append(log, "init_failed")
    /\ UNCHANGED <<env, pc, initArgs, initCalls, startCalls, stopCalls,
                   launchResult, startResult, stopResult, yieldRaised, triggers>>

\* TaskInitReturn with the success record written after the try statement
\* instead of inside it: it is written after a caught Exception as well.
TaskInitReturn_LogsBoth ==
    /\ task = "awaiting"
    /\ LifespanSuspended
    /\ \E r \in {"ok", "Exception", "BaseException"} :
         /\ initResult' = r
         /\ CASE r = "ok" ->
                   /\ task' = "done"
                   /\ log' = Append(log, "init_completed")
              [] r = "Exception" ->
                   /\ task' = "done"
                   /\ log' = log \o <<"init_failed", "init_completed">>
              [] r = "BaseException" ->
                   /\ task' = "escaped"
                   /\ log' = log
    /\ UNCHANGED <<env, pc, initArgs, initCalls, startCalls, stopCalls,
                   launchResult, startResult, stopResult, yieldRaised, triggers>>

\* TaskInitReturn with a retry: after a caught Exception the task calls
\* graphiti_init again.
TaskInitReturn_Retry ==
    /\ task = "awaiting"
    /\ LifespanSuspended
    /\ \E r \in {"ok", "Exception", "BaseException"} :
         /\ initResult' = r
         /\ CASE r = "ok" ->
                   /\ task' = "done"
                   /\ log' = IF initArgs.load
                             THEN log \o <<"init_completed", "data_loaded">>
                             ELSE Append(log, "init_completed")
              [] r = "Exception" ->
                   /\ task' = IF initCalls < 2 THEN "created" ELSE "done"
                   /\ log' = Append(log, "init_failed")
              [] r = "BaseException" ->
                   /\ task' = "escaped"
                   /\ log' = log
    /\ UNCHANGED <<env, pc, initArgs, initCalls, startCalls, stopCalls,
                   launchResult, startResult, stopResult, yieldRaised, triggers>>

\* lines 85-93: the await ends. A return is logged (and the load mode when
\* data was loaded); an Exception is caught and logged; anything that is not
\* an Exception (asyncio.CancelledError, SystemExit, KeyboardInterrupt)
\* passes the except clause and leaves the coroutine.
TaskInitReturn ==
    /\ task = "awaiting"
    /\ LifespanSuspended
    /\ \E r \in {"ok", "Exception", "BaseException"} :
         /\ initResult' = r
         /\ CASE r = "ok" ->
                   /\ task' = "done"
                   /\ log' = IF initArgs.load
                             THEN log \o <<"init_completed", "data_loaded">>
                             ELSE Append(log, "init_completed")
              [] r = "Exception" ->
                   /\ task' = "done"
                   /\ log' = Append(log, "init_failed")
              [] r = "BaseException" ->
                   /\ task' = "escaped"
                   /\ log' = log
    /\ UNCHANGED <<env, pc, initArgs, initCalls, startCalls, stopCalls,
                   launchResult, startResult, stopResult, yieldRaised, triggers>>

----------------------------------------------------------------------------
\* The main control path from entry to the yield: it has no await, so once
\* entered it runs to the yield provided start_sync_scheduler returns.
Startup == Enter \/ LaunchInit \/ StartCall \/ SkipStart \/ StartReturn

Next ==
    \/ Enter
    \/ LaunchInit
    \/ StartCall
    \/ SkipStart
    \/ StartReturn
    \/ ShutdownTrigger
    \/ YieldRaise
    \/ StopCall
    \/ StopReturn
    \/ TaskStart
    \/ TaskInitReturn

Spec == Init /\ [][Next]_vars

\* The startup path is run to its yield; nothing is assumed of the background
\* task, of the shutdown trigger or of the shutdown path.
FairSpec == Spec /\ WF_vars(Startup)

\* The startup path without the assumption that start_sync_scheduler ends:
\* the lifespan's own steps are run, the return of the call of line 65 is
\* left to the scheduler module.
StartupOwnSteps == Enter \/ LaunchInit \/ StartCall \/ SkipStart

FairSpecStartMayHang == Spec /\ WF_vars(StartupOwnSteps)

TypeOK ==
    /\ env \in Environments
    /\ pc \in LifespanPcs
    /\ task \in TaskPcs
    /\ initCalls \in 0..1
    /\ startCalls \in 0..1
    /\ stopCalls \in 0..1
    /\ launchResult \in {"none", "ok", "Exception"}
    /\ initResult \in {"none", "ok", "Exception", "BaseException"}
    /\ startResult \in {"none", "ok", "Exception"}
    /\ stopResult \in {"none", "ok", "Exception"}
    /\ yieldRaised \in BOOLEAN
    /\ triggers \in 0..MaxTriggers

----------------------------------------------------------------------------
\* Phases of the lifespan used by the properties

StartupPcs  == {"not_started", "init_launch", "sched_check", "in_start"}
ShutdownPcs == {"shutting_down", "in_stop", "stopped"}
TaskRan     == task \in {"awaiting", "done", "escaped"}

----------------------------------------------------------------------------
\* C1: startup reaches serving-ready without waiting for initialize(): in
\* every behaviour in which the startup path is run, whatever the
\* configuration, the lifespan gets to its yield while graphiti_init has not
\* returned (so also in the behaviours where it never returns).
C1_ServingReadyBeforeInitReturns == <>(pc = "serving" /\ initResult = "none")

\* serving-ready with the initializer in flight
C1_Witness == pc = "serving" /\ task = "awaiting" /\ initResult = "none"

\* C2: graphiti_init is called at most once in a process lifetime, whatever
\* the configuration and however the call ends: only by the background task,
\* never while the lifespan is on its startup path, exactly once when the
\* task was created and shutdown has begun, and not again after it returned
\* or raised.
C2_InitializeOnceDetached ==
    /\ initCalls <= 1
    /\ (initCalls = 1) <=> TaskRan
    /\ TaskRan => launchResult = "ok"
    /\ initCalls > 0 => pc \notin StartupPcs
    /\ initResult # "none" => initCalls = 1
    /\ (launchResult = "ok" /\ pc \in ShutdownPcs \cup {"aborted"}) => initCalls = 1

\* the process is through its shutdown, graphiti_init raised, and it was
\* called once, with every flag unset
C2_Witness ==
    /\ pc = "stopped"
    /\ initResult = "Exception"
    /\ initCalls = 1
    /\ \A n \in EnvNames : ~env[n].set

\* C3: stop_sync_scheduler is called exactly once by the shutdown sequence,
\* whatever the configuration and whatever happened at startup: not before
\* the shutdown sequence, once when it has ended, never twice.
C3_StopExactlyOnce ==
    /\ stopCalls <= 1
    /\ pc \in {"in_stop", "stopped"} => stopCalls = 1
    /\ pc \in StartupPcs \cup {"serving", "shutting_down"} => stopCalls = 0

\* shutdown has ended with one stop call although start was never called
C3_Witness ==
    /\ pc = "stopped"
    /\ stopCalls = 1
    /\ startCalls = 0
    /\ ~scheduler_enabled

----------------------------------------------------------------------------
\* The flag values the properties speak of, spelled out

TrueSpellings  == {Set(s_true), Set(s_True), Set(s_TRUE)}
UnsetOrFalse   == {Unset, Set(s_false), Set(s_False)}
PastSchedCheck == LifespanPcs \ {"not_started", "init_launch", "sched_check"}

\* C4: start_sync_scheduler is called at most once; once the lifespan is
\* past the check of line 62 it has been called exactly when
\* ENABLE_SYNC_SCHEDULER is set to a spelling of "true" in any letter case
\* (unset, and every other value, means not called), whether or not the
\* launch of the initializer raised and however graphiti_init ends.
C4_StartIffEnabled ==
    /\ startCalls <= 1
    /\ pc \in PastSchedCheck =>
         ((startCalls = 1) <=> (env["ENABLE_SYNC_SCHEDULER"] \in TrueSpellings))
    /\ pc \notin PastSchedCheck => startCalls = 0

\* start was called for ENABLE_SYNC_SCHEDULER=TRUE although the launch of
\* the initializer raised
C4_Witness ==
    /\ pc = "serving"
    /\ startCalls = 1
    /\ env["ENABLE_SYNC_SCHEDULER"] = Set(s_TRUE)
    /\ launchResult = "Exception"

\* C5: when graphiti_init raises an Exception, exactly one initialization
\* failure is logged, the task ends normally (the error does not leave it),
\* the step leaves the lifespan where it was (at serving-ready or beyond),
\* and the scheduler start and the shutdown stop are as without the failure.
C5_InitFailureContained ==
    /\ [](/\ Logged("init_failed") = (IF initResult = "Exception" THEN 1 ELSE 0)
          /\ initResult = "Exception" =>
               /\ task = "done"
               /\ Logged("init_completed") = 0
               /\ pc \in {"serving", "aborted"} \cup ShutdownPcs
               /\ pc = "aborted" => yieldRaised
               /\ startCalls = (IF scheduler_enabled THEN 1 ELSE 0)
               /\ pc \in {"in_stop", "stopped"} => stopCalls = 1)
    /\ [][(initResult = "none" /\ initResult' = "Exception") =>
            UNCHANGED <<pc, startCalls, stopCalls, startResult, stopResult>>]_vars

\* graphiti_init raised while serving; the scheduler had started and the
\* shutdown afterwards called stop
C5_Witness ==
    /\ initResult = "Exception"
    /\ Logged("init_failed") = 1
    /\ pc = "stopped"
    /\ startResult = "ok"
    /\ stopCalls = 1

\* C6 as stated: no error raised inside graphiti_init, of whatever class,
\* leaves the background task; each is turned into a logged failure.
C6_Original ==
    /\ task # "escaped"
    /\ initResult \in {"Exception", "BaseException"} =>
         (task = "done" /\ Logged("init_failed") = 1)

\* C6 amended: an error of class Exception raised inside graphiti_init is
\* caught and logged as a failure; an error outside Exception (cancellation,
\* SystemExit, KeyboardInterrupt) is not caught: it leaves the task and
\* nothing is logged for it.
C6_OnlyExceptionCaught ==
    /\ initResult = "Exception" => (task = "done" /\ Logged("init_failed") = 1)
    /\ (task = "escaped") <=> (initResult = "BaseException")
    /\ initResult = "BaseException" =>
         (Logged("init_failed") = 0 /\ Logged("init_completed") = 0)

\* a cancellation left the task while the service was serving
C6_Witness ==
    /\ initResult = "BaseException"
    /\ task = "escaped"
    /\ pc = "serving"

FlagsOff ==
    /\ env["LOAD_INITIAL_DATA"] \in UnsetOrFalse
    /\ env["ENABLE_SYNC_SCHEDULER"] \in UnsetOrFalse

\* C7 as stated: with LOAD_INITIAL_DATA and ENABLE_SYNC_SCHEDULER unset or
\* false, serving-ready is reached with neither graphiti_init nor
\* start_sync_scheduler invoked.
C7_Original ==
    (FlagsOff /\ pc = "serving") => (initCalls = 0 /\ startCalls = 0)

\* C7 amended: with both flags unset or false the lifespan never calls
\* start_sync_scheduler, but it still creates the background task, with the
\* load flag false, and the task calls graphiti_init once the lifespan has
\* yielded.
C7_FlagsOffStillInitializes ==
    FlagsOff =>
      /\ startCalls = 0
      /\ pc # "in_start"
      /\ launchResult = "ok" =>
           (task # "none" /\ initArgs.bound /\ ~initArgs.load)
      /\ (launchResult = "ok" /\ pc \in ShutdownPcs \cup {"aborted"}) =>
           initCalls = 1
      /\ Logged("data_loaded") = 0

\* every flag unset: serving, graphiti_init called without load, start not
C7_Witness ==
    /\ \A n \in EnvNames : ~env[n].set
    /\ pc = "serving"
    /\ initCalls = 1
    /\ ~initArgs.load
    /\ startCalls = 0

\* C8: a second shutdown trigger is a no-op: it changes nothing but the
\* count of triggers, the shutdown sequence is entered at most once and is
\* never left for an earlier position, and stop_sync_scheduler is called no
\* more than once however many triggers arrive.
C8_SecondTriggerNoOp ==
    /\ [](/\ triggers >= 2 => stopCalls <= 1
          /\ Logged("shutting_down") <= 1
          /\ (triggers >= 2 /\ pc = "stopped") => stopCalls = 1)
    /\ [][(triggers' > triggers /\ triggers >= 1) =>
            UNCHANGED <<pc, stopCalls, stopResult, log>>]_vars
    /\ [][(pc \in ShutdownPcs) => (pc' \in ShutdownPcs)]_vars

\* two triggers were delivered and stop was called once
C8_Witness ==
    /\ triggers = 2
    /\ pc = "stopped"
    /\ stopCalls = 1

\* C9: a failure of one startup phase stops no other: each failure is
\* logged, start_sync_scheduler is still called when enabled after a failed
\* launch, no startup failure ends the lifespan, the startup path gets to
\* its yield, and the shutdown sequence still calls stop_sync_scheduler.
C9_StartupFailuresIsolated ==
    /\ [](/\ Logged("launch_failed") = (IF launchResult = "Exception" THEN 1 ELSE 0)
          /\ Logged("start_failed") = (IF startResult = "Exception" THEN 1 ELSE 0)
          /\ pc \in PastSchedCheck =>
               startCalls = (IF scheduler_enabled THEN 1 ELSE 0)
          /\ pc = "aborted" => yieldRaised
          /\ pc = "stopped" => stopCalls = 1)
    /\ <>(pc = "serving")

\* both the launch and start raised; the service served and shut down with
\* one stop call
C9_Witness ==
    /\ launchResult = "Exception"
    /\ startResult = "Exception"
    /\ Logged("launch_failed") = 1
    /\ Logged("start_failed") = 1
    /\ pc = "stopped"
    /\ stopCalls = 1

\* C10: when stop_sync_scheduler raises an Exception it is logged once and
\* the lifespan ends normally: the error does not leave it.
C10_StopFailureLogged ==
    /\ Logged("stop_failed") = (IF stopResult = "Exception" THEN 1 ELSE 0)
    /\ stopResult # "none" => (pc = "stopped" /\ ~yieldRaised)

\* stop raised and the lifespan has ended normally
C10_Witness ==
    /\ stopResult = "Exception"
    /\ pc = "stopped"
    /\ Logged("stop_failed") = 1

----------------------------------------------------------------------------
\* The startup intents of the specification, read off the two arguments that
\* line 56 binds: no load is skip; a load in mode "initial" is full-load, in
\* mode "live" incremental-live; a load in any other mode is none of them.
Intents == {"skip", "full-load", "incremental-live"}

IntentOf(a) ==
    IF ~a.load THEN "skip"
    ELSE IF a.mode = s_initial THEN "full-load"
    ELSE IF a.mode = s_live THEN "incremental-live"
    ELSE "unrecognized"

\* C11: the arguments bound for initialize are a function of the environment
\* read once at line 52-53: the load flag is true exactly when
\* LOAD_INITIAL_DATA is a spelling of "true" in any letter case (unset means
\* false), the mode is the value of SYNC_MODE ("initial" when unset), and once
\* bound they never change. So every flag unset gives skip,
\* LOAD_INITIAL_DATA=true without SYNC_MODE gives full-load, and
\* LOAD_INITIAL_DATA=true with SYNC_MODE=live gives incremental-live.
C11_IntentFromConfiguration ==
    /\ [](/\ initArgs.bound <=> (launchResult = "ok")
          /\ initArgs.bound =>
               /\ initArgs.load <=> (env["LOAD_INITIAL_DATA"] \in TrueSpellings)
               /\ initArgs.mode = (IF env["SYNC_MODE"].set
                                   THEN env["SYNC_MODE"].val
                                   ELSE s_initial)
               /\ (\A n \in EnvNames : ~env[n].set) =>
                    IntentOf(initArgs) = "skip"
               /\ (env["LOAD_INITIAL_DATA"] \in TrueSpellings
                     /\ ~env["SYNC_MODE"].set) =>
                    IntentOf(initArgs) = "full-load"
               /\ (env["LOAD_INITIAL_DATA"] \in TrueSpellings
                     /\ env["SYNC_MODE"] = Set(s_live)) =>
                    IntentOf(initArgs) = "incremental-live")
    /\ [][initArgs.bound => initArgs' = initArgs]_vars

\* LOAD_INITIAL_DATA=TRUE, SYNC_MODE=live: graphiti_init was called with
\* the incremental-live intent
C11_Witness ==
    /\ env["LOAD_INITIAL_DATA"] = Set(s_TRUE)
    /\ env["SYNC_MODE"] = Set(s_live)
    /\ initCalls = 1
    /\ IntentOf(initArgs) = "incremental-live"

Recognized == {Unset, Set(s_initial), Set(s_live)}

\* C12 as stated: whatever the values of LOAD_INITIAL_DATA and SYNC_MODE,
\* the intent handed to initialize is skip, full-load or incremental-live,
\* an unrecognized SYNC_MODE being replaced by the default "initial".
C12_Original ==
    initArgs.bound =>
      /\ IntentOf(initArgs) \in Intents
      /\ (initArgs.load /\ env["SYNC_MODE"] \notin Recognized) =>
           initArgs.mode = s_initial

\* C12 amended: the selection is total (every environment binds a boolean
\* load flag and a mode); an unrecognized LOAD_INITIAL_DATA falls back to
\* false and a missing SYNC_MODE to "initial"; but an unrecognized SYNC_MODE
\* is handed to initialize unchanged, so with the load flag true the intent
\* is then none of skip, full-load, incremental-live.
C12_UnrecognizedModePassedThrough ==
    initArgs.bound =>
      /\ initArgs.load \in BOOLEAN
      /\ env["LOAD_INITIAL_DATA"] \notin TrueSpellings =>
           (~initArgs.load /\ IntentOf(initArgs) = "skip")
      /\ ~env["SYNC_MODE"].set => initArgs.mode = s_initial
      /\ env["SYNC_MODE"].set => initArgs.mode = env["SYNC_MODE"].val
      /\ (IntentOf(initArgs) \in Intents) <=>
           (~initArgs.load \/ env["SYNC_MODE"] \in Recognized)

\* LOAD_INITIAL_DATA=true, SYNC_MODE=weekly: graphiti_init was called with
\* the mode "weekly"
C12_Witness ==
    /\ env["LOAD_INITIAL_DATA"] = Set(s_true)
    /\ env["SYNC_MODE"] = Set(s_weekly)
    /\ initCalls = 1
    /\ initArgs.load
    /\ initArgs.mode = s_weekly

----------------------------------------------------------------------------
\* C13 as stated: with the scheduler enabled, serving-ready is reached
\* whether or not start_sync_scheduler returns.
C13_Original == scheduler_enabled => <>(pc = "serving")

\* C13 amended: start_sync_scheduler is called on the startup path, before
\* the yield. With the scheduler enabled the lifespan is at serving-ready or
\* beyond only once the call has returned or raised, and while the call is
\* pending nothing else runs, the background task included; with the
\* scheduler disabled serving-ready is always reached.
C13_ServingWaitsForStart ==
    /\ [](/\ (scheduler_enabled /\ pc \in {"serving", "aborted"} \cup ShutdownPcs) =>
               startResult # "none"
          /\ pc = "in_start" =>
               (startResult = "none" /\ initCalls = 0 /\ ~ENABLED TaskStart))
    /\ ~scheduler_enabled => <>(pc = "serving")

\* start_sync_scheduler has been called and has not returned: the lifespan
\* is not serving and the created task has not run
C13_Witness ==
    /\ scheduler_enabled
    /\ pc = "in_start"
    /\ startResult = "none"
    /\ task = "created"

----------------------------------------------------------------------------
\* C14 as stated: with the scheduler enabled no order is fixed between the
\* initializer and the scheduler start, so once the task exists it may run,
\* and graphiti_init complete, before start_sync_scheduler is called.
C14_Original ==
    (scheduler_enabled /\ task = "created" /\ startCalls = 0) =>
      ENABLED TaskStart

\* C14 amended: with the scheduler enabled the order is fixed by the code:
\* graphiti_init is called, and so completes, only after
\* start_sync_scheduler has been called and has returned or raised, because
\* the lifespan has no await between create_task and its yield. Only the
\* order start-before-completion is reachable.
C14_StartPrecedesInitialize ==
    /\ (scheduler_enabled /\ (initCalls > 0 \/ initResult # "none")) =>
         (startCalls = 1 /\ startResult # "none")
    /\ pc \in StartupPcs =>
         (initCalls = 0 /\ initResult = "none"
            /\ ~ENABLED TaskStart /\ ~ENABLED TaskInitReturn)

\* the scheduler was started, then graphiti_init ran and completed
C14_Witness ==
    /\ scheduler_enabled
    /\ startResult = "ok"
    /\ initResult = "ok"
    /\ pc = "serving"

----------------------------------------------------------------------------
\* C15: the shutdown sequence neither cancels nor waits for a pending
\* graphiti_init: its steps leave the background task as it is, each of
\* them can be taken whatever the task's position, and the one call whose
\* end the sequence waits for is stop_sync_scheduler.
C15_ShutdownIgnoresInitializer ==
    /\ [](/\ (pc = "serving" /\ TaskFirstStepRan /\ triggers < MaxTriggers) =>
               ENABLED ShutdownTrigger
          /\ pc = "shutting_down" => ENABLED StopCall
          /\ pc = "in_stop" =>
               (stopCalls = 1 /\ stopResult = "none" /\ ENABLED StopReturn)
          /\ pc = "stopped" => stopResult # "none")
    /\ [][(pc' # pc /\ pc' \in ShutdownPcs) =>
            UNCHANGED <<task, initResult, initCalls>>]_vars

\* the lifespan has ended after stop returned, and graphiti_init is still
\* pending
C15_Witness ==
    /\ pc = "stopped"
    /\ stopResult = "ok"
    /\ task = "awaiting"
    /\ initResult = "none"

----------------------------------------------------------------------------
\* The lifecycle phases of the specification as positions of the lifespan,
\* in their order: not-started (0), serving-init-pending (1, before the
\* launch), serving-init-running (2, launch done, scheduler section),
\* serving-ready (3, at the yield), shutting-down (4), stopped (5, the
\* lifespan has ended, normally or by an exception at the yield).
PhaseRank(p) ==
    CASE p = "not_started"                   -> 0
      [] p = "init_launch"                   -> 1
      [] p \in {"sched_check", "in_start"}   -> 2
      [] p = "serving"                       -> 3
      [] p \in {"shutting_down", "in_stop"}  -> 4
      [] p \in {"stopped", "aborted"}        -> 5

\* C16: the phase only moves forward: no step takes the lifespan to an
\* earlier phase, start_sync_scheduler is never called once
\* stop_sync_scheduler has been, and once shutdown has begun no background
\* task is created and graphiti_init is not called.
C16_PhasesMoveForward ==
    /\ [][PhaseRank(pc') >= PhaseRank(pc)]_vars
    /\ [][stopCalls > 0 => startCalls' = startCalls]_vars
    /\ [][PhaseRank(pc) >= 4 =>
            /\ (task' = "created") => (task = "created")
            /\ initCalls' = initCalls
            /\ initArgs' = initArgs]_vars
    /\ [](stopCalls > 0 => PhaseRank(pc) >= 4)

\* a whole lifetime: launched, started, served, stopped
C16_Witness ==
    /\ pc = "stopped"
    /\ startCalls = 1
    /\ stopCalls = 1
    /\ initCalls = 1
    /\ triggers = 1

----------------------------------------------------------------------------
\* Outcome records of the background task written so far
Outcomes == Logged("init_completed") + Logged("init_failed")

\* C17 as stated: every run of the background task that has ended has
\* logged exactly one outcome, success or failure.
C17_Original ==
    /\ Outcomes <= 1
    /\ task \in {"done", "escaped"} => Outcomes = 1

\* C17 amended: a run that ends by a return or by a caught Exception has
\* logged exactly one outcome (success for the return, failure for the
\* Exception), never both; a run ended by an error outside Exception has
\* logged none; nothing is logged before the end; and an ended task is
\* never run again (no retry of graphiti_init).
C17_OneOutcomeUnlessEscaped ==
    /\ [](/\ Outcomes <= 1
          /\ initCalls <= 1
          /\ task = "done" =>
               /\ Outcomes = 1
               /\ (Logged("init_completed") = 1) <=> (initResult = "ok")
               /\ (Logged("init_failed") = 1) <=> (initResult = "Exception")
          /\ task \in {"none", "created", "awaiting", "escaped"} => Outcomes = 0)
    /\ [][(task \in {"done", "escaped"}) =>
            (task' = task /\ initCalls' = initCalls /\ initResult' = initResult)]_vars

\* a load that succeeded: one success record, no failure record
C17_Witness ==
    /\ task = "done"
    /\ initResult = "ok"
    /\ initArgs.load
    /\ Logged("init_completed") = 1
    /\ Logged("init_failed") = 0
    /\ Logged("data_loaded") = 1

----------------------------------------------------------------------------
\* C18: the shutdown sequence runs only when the lifespan is resumed
\* normally after its yield. When an exception is thrown in at the yield
\* the lifespan ends there: stop_sync_scheduler is not called, then or
\* later, so a scheduler that was started is left running.
C18_NoStopAfterExceptionAtYield ==
    /\ [](/\ yieldRaised =>
               /\ pc = "aborted"
               /\ stopCalls = 0
               /\ stopResult = "none"
               /\ Logged("shutting_down") = 0
          /\ stopCalls > 0 => (~yieldRaised /\ triggers >= 1)
          /\ pc = "aborted" => yieldRaised)
    /\ [][yieldRaised =>
            UNCHANGED <<pc, startCalls, startResult, stopCalls, stopResult>>]_vars

\* the scheduler was started, the serving phase ended by an exception, a
\* shutdown trigger came afterwards, and stop was never called
C18_Witness ==
    /\ yieldRaised
    /\ pc = "aborted"
    /\ startResult = "ok"
    /\ triggers = 1
    /\ stopCalls = 0

====
